---- MODULE Spec2Model ----
(***************************************************************************)
(* A model of the sudocoo backtracking solver (pkg/solver/solver.go) and   *)
(* of the way the driver (main.go) calls it.  Bit masks are kept as        *)
(* integers 0..511 exactly as in the Go code; arrays are 0-indexed         *)
(* functions; the slice cellSearchSpace is a sequence read through At.     *)
(***************************************************************************)
EXTENDS Integers, Sequences, FiniteSets, TLC

\* ------------------------------------------------------------------------
\* Bounds of the verification (not program constants)
\* ------------------------------------------------------------------------

\* how many of the positions of HolePos may be blank in the input grids
MaxHoles == 7

\* how many of the first positions of HolePos may also hold another digit
MaxAlts == 2

\* how many times the caller calls Solve() on one engine
MaxCalls == 5

\* the same for each of two engines that run side by side
MaxTwoCalls == 3

\* the largest value of the flag -l given to the driver
MaxLimit == 3

\* flipBit calls in a row on one cell
MaxFlips == 4

\* ------------------------------------------------------------------------
\* Constants of the program
\* ------------------------------------------------------------------------

sudokuSize == 9

initialCandidatesMask == 511

Idx == 0 .. (sudokuSize - 1)

Masks == 0 .. (2 ^ sudokuSize - 1)

\* a Go array literal, 0-indexed
Arr(t) == [i \in 0 .. (Len(t) - 1) |-> t[i + 1]]

boxLookup ==
  Arr(<< Arr(<<0, 0, 0, 1, 1, 1, 2, 2, 2>>),
         Arr(<<0, 0, 0, 1, 1, 1, 2, 2, 2>>),
         Arr(<<0, 0, 0, 1, 1, 1, 2, 2, 2>>),
         Arr(<<3, 3, 3, 4, 4, 4, 5, 5, 5>>),
         Arr(<<3, 3, 3, 4, 4, 4, 5, 5, 5>>),
         Arr(<<3, 3, 3, 4, 4, 4, 5, 5, 5>>),
         Arr(<<6, 6, 6, 7, 7, 7, 8, 8, 8>>),
         Arr(<<6, 6, 6, 7, 7, 7, 8, 8, 8>>),
         Arr(<<6, 6, 6, 7, 7, 7, 8, 8, 8>>) >>)

\* ------------------------------------------------------------------------
\* Go's integer operators on non-negative ints
\* ------------------------------------------------------------------------

RECURSIVE BitAnd(_, _)
BitAnd(a, b) ==
  IF a = 0 \/ b = 0 THEN 0
  ELSE (a % 2) * (b % 2) + 2 * BitAnd(a \div 2, b \div 2)

RECURSIVE BitXor(_, _)
BitXor(a, b) ==
  IF a = 0 THEN b
  ELSE IF b = 0 THEN a
  ELSE (((a % 2) + (b % 2)) % 2) + 2 * BitXor(a \div 2, b \div 2)

\* 1 << n
Shl1(n) == 2 ^ n

\* ------------------------------------------------------------------------
\* Lookup tables built by init()
\* ------------------------------------------------------------------------

\* initInner that keeps the first bit found instead of overwriting it
RECURSIVE initInnerKeepFirst(_, _, _, _)
initInnerKeepFirst(i, j, count, left) ==
  IF j >= Shl1(sudokuSize) THEN [count |-> count, left |-> left]
  ELSE IF BitAnd(i, j) # 0
  THEN initInnerKeepFirst(i, 2 * j, count + 1, IF left = 0 THEN j ELSE left)
  ELSE initInnerKeepFirst(i, 2 * j, count, left)

\* the inner loop of init() for one i: j runs over 1, 2, 4, ... , 256
RECURSIVE initInner(_, _, _, _)
initInner(i, j, count, left) ==
  IF j >= Shl1(sudokuSize) THEN [count |-> count, left |-> left]
  ELSE IF BitAnd(i, j) # 0 THEN initInner(i, 2 * j, count + 1, j)
  ELSE initInner(i, 2 * j, count, left)

leftmostBitLookup == [i \in Masks |-> initInner(i, 1, 0, 0).left]

bitCount == [i \in Masks |-> initInner(i, 1, 0, 0).count]

bitToNumber ==
  [i \in Masks |->
     IF \E n \in 0 .. (sudokuSize - 1) : i = Shl1(n)
     THEN (CHOOSE n \in 0 .. (sudokuSize - 1) : i = Shl1(n)) + 1
     ELSE 0]

initialCandidates ==
  [row    |-> [i \in Idx |-> initialCandidatesMask],
   column |-> [i \in Idx |-> initialCandidatesMask],
   box    |-> [i \in Idx |-> initialCandidatesMask]]

\* ------------------------------------------------------------------------
\* type candidates
\* ------------------------------------------------------------------------

\* flipBit with the indices of boxLookup exchanged
flipBitTransposedBox(c, x, y, bit) ==
  [c EXCEPT !.row[y] = BitXor(@, bit),
            !.column[x] = BitXor(@, bit),
            !.box[boxLookup[x][y]] = BitXor(@, bit)]

flipBit(c, x, y, bit) ==
  [c EXCEPT !.row[y] = BitXor(@, bit),
            !.column[x] = BitXor(@, bit),
            !.box[boxLookup[y][x]] = BitXor(@, bit)]

\* flipBitWithCheck without the test of the box
flipBitWithCheckNoBox(c, x, y, bit) ==
  LET c2 == flipBit(c, x, y, bit) IN
  [c  |-> c2,
   ok |-> /\ BitAnd(c2.row[y], bit) = 0
          /\ BitAnd(c2.column[x], bit) = 0]

\* returns the candidates after the flip and the bool the Go method returns
flipBitWithCheck(c, x, y, bit) ==
  LET c2 == flipBit(c, x, y, bit) IN
  [c  |-> c2,
   ok |-> /\ BitAnd(c2.row[y], bit) = 0
          /\ BitAnd(c2.column[x], bit) = 0
          /\ BitAnd(c2.box[boxLookup[y][x]], bit) = 0]

\* getCellCandidates without the box
getCellCandidatesNoBox(c, x, y) ==
  BitAnd(c.row[y], c.column[x])

\* getCellCandidates without the column
getCellCandidatesNoColumn(c, x, y) ==
  BitAnd(c.row[y], c.box[boxLookup[y][x]])

getCellCandidates(c, x, y) ==
  BitAnd(BitAnd(c.row[y], c.column[x]), c.box[boxLookup[y][x]])

\* ------------------------------------------------------------------------
\* type Solver
\* ------------------------------------------------------------------------

ZeroGrid == [y \in Idx |-> [x \in Idx |-> 0]]

\* Solver{}: every field at its zero value
ZeroSolver ==
  [globalCandidates  |-> [row |-> [i \in Idx |-> 0],
                          column |-> [i \in Idx |-> 0],
                          box |-> [i \in Idx |-> 0]],
   cells             |-> ZeroGrid,
   cellSearchSpace   |-> << >>,
   currentSearchCell |-> 0,
   cellCandidates    |-> ZeroGrid,
   lastSolution      |-> ZeroGrid,
   done              |-> FALSE,
   haveSolution      |-> FALSE,
   iterations        |-> 0]

\* s.cellSearchSpace[i]; the Go runtime panics when InRange is false
InRange(sv, i) == 0 <= i /\ i < Len(sv.cellSearchSpace)

At(sv, i) == sv.cellSearchSpace[i + 1]

getCurrentCell(sv) ==
  sv.cells[At(sv, sv.currentSearchCell).row][At(sv, sv.currentSearchCell).column]

\* setCurrentCell with row and column exchanged
setCurrentCellTransposed(sv, v) ==
  [sv EXCEPT !.cells[At(sv, sv.currentSearchCell).column]
                    [At(sv, sv.currentSearchCell).row] = v]

setCurrentCell(sv, v) ==
  [sv EXCEPT !.cells[At(sv, sv.currentSearchCell).row]
                    [At(sv, sv.currentSearchCell).column] = v]

getCurrentCellCandidates(sv) ==
  sv.cellCandidates[At(sv, sv.currentSearchCell).row][At(sv, sv.currentSearchCell).column]

setCurrentCellCandidates(sv, c) ==
  [sv EXCEPT !.cellCandidates[At(sv, sv.currentSearchCell).row]
                             [At(sv, sv.currentSearchCell).column] = c]

flip(sv) ==
  [sv EXCEPT !.globalCandidates =
     flipBit(sv.globalCandidates,
             At(sv, sv.currentSearchCell).column,
             At(sv, sv.currentSearchCell).row,
             getCurrentCell(sv))]

\* ------------------------------------------------------------------------
\* NewSolver
\* ------------------------------------------------------------------------

\* the inner range loop of NewSolver: the cells x, x+1, ... of row y
RECURSIVE NewSolverRow(_, _, _, _)
NewSolverRow(in, y, x, sudoku) ==
  IF x = sudokuSize THEN [nil |-> FALSE, err |-> FALSE, solver |-> sudoku]
  ELSE
    LET digit == in[y][x] IN
    IF digit > 0
    THEN LET bit == Shl1(digit - 1)
             r == flipBitWithCheck(sudoku.globalCandidates, x, y, bit)
         IN IF ~r.ok
            THEN [nil |-> TRUE, err |-> TRUE, solver |-> ZeroSolver]
            ELSE NewSolverRow(in, y, x + 1,
                   [sudoku EXCEPT !.globalCandidates = r.c, !.cells[y][x] = bit])
    ELSE NewSolverRow(in, y, x + 1,
           [sudoku EXCEPT !.cellSearchSpace = Append(@, [row |-> y, column |-> x]),
                          !.cells[y][x] = digit])

\* the outer range loop of NewSolver: the rows y, y+1, ...
RECURSIVE NewSolverRows(_, _, _)
NewSolverRows(in, y, sudoku) ==
  IF y = sudokuSize THEN [nil |-> FALSE, err |-> FALSE, solver |-> sudoku]
  ELSE LET r == NewSolverRow(in, y, 0, sudoku) IN
       IF r.err THEN r ELSE NewSolverRows(in, y + 1, r.solver)

\* NewSolver without "currentSearchCell: -1"
NewSolverZeroCursor(in) ==
  NewSolverRows(in, 0, [ZeroSolver EXCEPT !.globalCandidates = initialCandidates])

\* NewSolver reading the package variable initialCandidates as ic
NewSolverFrom(ic, in) ==
  NewSolverRows(in, 0,
    [ZeroSolver EXCEPT !.globalCandidates = ic,
                       !.currentSearchCell = -1])

NewSolver(in) == NewSolverFrom(initialCandidates, in)

\* ------------------------------------------------------------------------
\* Solution, Iterations
\* ------------------------------------------------------------------------

\* Solution that decodes the grid being searched instead of the copy
SolutionOfCells(sv) ==
  [panic |-> ~sv.haveSolution,
   grid  |-> IF ~sv.haveSolution THEN ZeroGrid
             ELSE [y \in Idx |-> [x \in Idx |-> bitToNumber[sv.cells[y][x]]]]]

\* panic is TRUE when the Go method panics, grid is the array it returns
Solution(sv) ==
  [panic |-> ~sv.haveSolution,
   grid  |-> IF ~sv.haveSolution THEN ZeroGrid
             ELSE [y \in Idx |-> [x \in Idx |-> bitToNumber[sv.lastSolution[y][x]]]]]

Iterations(sv) == sv.iterations

\* ------------------------------------------------------------------------
\* searchNextCellToTry
\* ------------------------------------------------------------------------

\* searchScanCell without "if bc == 0 { return false }"
searchScanCellNoDeadEnd(sv, i, st) ==
  LET cc == getCellCandidates(sv.globalCandidates, At(sv, i).column, At(sv, i).row)
      bc == bitCount[cc]
  IN
  IF st.fewestCandidatesCount > bc
  THEN [stop |-> (bc = 1), dead |-> FALSE,
        fewestCandidatesCount |-> bc, indexFound |-> i, cellCandidates |-> cc]
  ELSE st

\* searchScanCell with ">=" for ">": among equal counts the last one wins
searchScanCellLastTie(sv, i, st) ==
  LET cc == getCellCandidates(sv.globalCandidates, At(sv, i).column, At(sv, i).row)
      bc == bitCount[cc]
  IN
  IF bc = 0 THEN [st EXCEPT !.stop = TRUE, !.dead = TRUE]
  ELSE IF st.fewestCandidatesCount >= bc
  THEN [stop |-> (bc = 1), dead |-> FALSE,
        fewestCandidatesCount |-> bc, indexFound |-> i, cellCandidates |-> cc]
  ELSE st

\* The body of the for loop over the empty cells for one i.  st holds the
\* loop's locals; stop is set by "return false" (dead) and by "break".
searchScanCell(sv, i, st) ==
  LET cc == getCellCandidates(sv.globalCandidates, At(sv, i).column, At(sv, i).row)
      bc == bitCount[cc]
  IN
  IF bc = 0 THEN [st EXCEPT !.stop = TRUE, !.dead = TRUE]
  ELSE IF st.fewestCandidatesCount > bc
  THEN [stop |-> (bc = 1), dead |-> FALSE,
        fewestCandidatesCount |-> bc, indexFound |-> i, cellCandidates |-> cc]
  ELSE st

\* The for loop run for i = lo, lo+1, ..., hi-1 in this order, until it stops.
\* (The range is split in two halves only to keep the evaluation shallow.)
RECURSIVE searchScan(_, _, _, _)
searchScan(sv, lo, hi, st) ==
  IF st.stop \/ lo >= hi THEN st
  ELSE IF hi = lo + 1 THEN searchScanCell(sv, lo, st)
  ELSE LET mid == (lo + hi) \div 2 IN
       searchScan(sv, mid, hi, searchScan(sv, lo, mid, st))

\* swapCells that only copies element j over element i
swapCellsOverwrite(sv, i, j) ==
  [sv EXCEPT !.cellSearchSpace = [@ EXCEPT ![i + 1] = sv.cellSearchSpace[j + 1]]]

\* the swap of two elements of cellSearchSpace
swapCells(sv, i, j) ==
  [sv EXCEPT !.cellSearchSpace =
     [@ EXCEPT ![i + 1] = sv.cellSearchSpace[j + 1],
               ![j + 1] = sv.cellSearchSpace[i + 1]]]

\* ret is the bool returned, s the solver afterwards
searchNextCellToTry(sv) ==
  IF sv.currentSearchCell = Len(sv.cellSearchSpace) - 1
  THEN [ret |-> TRUE, s |-> sv]
  ELSE
    LET scan == searchScan(sv, sv.currentSearchCell + 1, Len(sv.cellSearchSpace),
                           [stop |-> FALSE, dead |-> FALSE,
                            fewestCandidatesCount |-> 10, indexFound |-> -1,
                            cellCandidates |-> 0])
    IN
    IF scan.dead
    THEN [ret |-> FALSE, s |-> sv]
    ELSE
      LET s1 == [sv EXCEPT !.currentSearchCell = @ + 1]
          s2 == IF scan.indexFound # s1.currentSearchCell
                THEN swapCells(s1, scan.indexFound, s1.currentSearchCell)
                ELSE s1
      IN [ret |-> FALSE, s |-> setCurrentCellCandidates(s2, scan.cellCandidates)]

\* ------------------------------------------------------------------------
\* backtrack
\* ------------------------------------------------------------------------

\* backtrackPass without the second flip before "return lcc"
backtrackPassOneFlip(st) ==
  LET s1 == flip(st.s)
      s2 == [s1 EXCEPT !.currentSearchCell = @ - 1]
  IN
  IF s2.currentSearchCell = -1
  THEN [stop |-> TRUE, lcc |-> 0, s |-> s2]
  ELSE
    LET lcc == getCurrentCellCandidates(s2) IN
    IF lcc # 0
    THEN [stop |-> TRUE, lcc |-> lcc, s |-> s2]
    ELSE [stop |-> FALSE, lcc |-> 0, s |-> s2]

\* One pass through the body of the for loop of backtrack.  stop is set by
\* either return; lcc is the value returned.
backtrackPass(st) ==
  LET s1 == flip(st.s)
      s2 == [s1 EXCEPT !.currentSearchCell = @ - 1]
  IN
  IF s2.currentSearchCell = -1
  THEN [stop |-> TRUE, lcc |-> 0, s |-> s2]
  ELSE
    LET lcc == getCurrentCellCandidates(s2) IN
    IF lcc # 0
    THEN [stop |-> TRUE, lcc |-> lcc, s |-> flip(s2)]
    ELSE [stop |-> FALSE, lcc |-> 0, s |-> s2]

\* n passes of the loop, or fewer when it returns.
\* (n is split in two halves only to keep the evaluation shallow.)
RECURSIVE backtrackLoop(_, _)
backtrackLoop(st, n) ==
  IF st.stop \/ n = 0 THEN st
  ELSE IF n = 1 THEN backtrackPass(st)
  ELSE backtrackLoop(backtrackLoop(st, n \div 2), n - (n \div 2))

\* lcc is the int returned, s the solver afterwards.  Every pass decrements
\* currentSearchCell and the loop returns at -1, so it makes at most
\* currentSearchCell + 1 passes.
backtrack(sv) ==
  backtrackLoop([stop |-> FALSE, lcc |-> 0, s |-> sv], sv.currentSearchCell + 1)

\* ------------------------------------------------------------------------
\* Solve
\* ------------------------------------------------------------------------

\* assignCandidate that forgets the candidates that remain
assignCandidateDropRest(sv, lcc) ==
  LET candidate == leftmostBitLookup[lcc] IN
  flip(setCurrentCell(setCurrentCellCandidates(sv, 0), candidate))

\* lines 343-351: take the next candidate and put it in the current cell
assignCandidate(sv, lcc) ==
  LET candidate == leftmostBitLookup[lcc] IN
  flip(setCurrentCell(setCurrentCellCandidates(sv, BitXor(lcc, candidate)), candidate))

\* SolveIteration with "return false" for "return haveSolution" at line 340
SolveIterationDropsLast(sv) ==
  LET s1 == [sv EXCEPT !.iterations = @ + 1]
      sr == searchNextCellToTry(s1)
      haveSolution == sr.ret
      s2 == IF haveSolution
            THEN [sr.s EXCEPT !.haveSolution = TRUE, !.lastSolution = sr.s.cells]
            ELSE sr.s
  IN
  IF ~InRange(s2, s2.currentSearchCell)
  THEN [s |-> s2, outcome |-> "panic"]
  ELSE
    LET lcc == getCurrentCellCandidates(s2) IN
    IF lcc = 0
    THEN LET bt == backtrack(s2) IN
         IF bt.lcc = 0
         THEN [s |-> [bt.s EXCEPT !.done = TRUE], outcome |-> "false"]
         ELSE [s |-> assignCandidate(bt.s, bt.lcc),
               outcome |-> IF haveSolution THEN "true" ELSE "continue"]
    ELSE [s |-> assignCandidate(s2, lcc),
          outcome |-> IF haveSolution THEN "true" ELSE "continue"]

\* One pass through the body of the for loop of Solve.
\* outcome: "continue" (next pass), "true" / "false" (Solve returns that),
\* "panic" (index out of range reading the current cell)
SolveIteration(sv) ==
  LET s1 == [sv EXCEPT !.iterations = @ + 1]
      sr == searchNextCellToTry(s1)
      haveSolution == sr.ret
      s2 == IF haveSolution
            THEN [sr.s EXCEPT !.haveSolution = TRUE, !.lastSolution = sr.s.cells]
            ELSE sr.s
  IN
  IF ~InRange(s2, s2.currentSearchCell)
  THEN [s |-> s2, outcome |-> "panic"]
  ELSE
    LET lcc == getCurrentCellCandidates(s2) IN
    IF lcc = 0
    THEN LET bt == backtrack(s2) IN
         IF bt.lcc = 0
         THEN [s |-> [bt.s EXCEPT !.done = TRUE],
               outcome |-> IF haveSolution THEN "true" ELSE "false"]
         ELSE [s |-> assignCandidate(bt.s, bt.lcc),
               outcome |-> IF haveSolution THEN "true" ELSE "continue"]
    ELSE [s |-> assignCandidate(s2, lcc),
          outcome |-> IF haveSolution THEN "true" ELSE "continue"]

\* the for loop of Solve: passes until one returns (or panics)
RECURSIVE SolveLoop(_)
SolveLoop(sv) ==
  LET r == SolveIteration(sv) IN
  IF r.outcome = "continue" THEN SolveLoop(r.s) ELSE r

\* the whole of Solve(): s is the solver afterwards, outcome what the call did
Solve(sv) ==
  IF sv.done THEN [s |-> sv, outcome |-> "false"] ELSE SolveLoop(sv)

\* ------------------------------------------------------------------------
\* Input grids
\* ------------------------------------------------------------------------

\* a solved grid
BaseGrid ==
  Arr(<< Arr(<<5, 3, 4, 6, 7, 8, 9, 1, 2>>),
         Arr(<<6, 7, 2, 1, 9, 5, 3, 4, 8>>),
         Arr(<<1, 9, 8, 3, 4, 2, 5, 6, 7>>),
         Arr(<<8, 5, 9, 7, 6, 1, 4, 2, 3>>),
         Arr(<<4, 2, 6, 8, 5, 3, 7, 9, 1>>),
         Arr(<<7, 1, 3, 9, 2, 4, 8, 5, 6>>),
         Arr(<<9, 6, 1, 5, 3, 7, 2, 8, 4>>),
         Arr(<<2, 8, 7, 4, 1, 9, 6, 3, 5>>),
         Arr(<<3, 4, 5, 2, 8, 6, 1, 7, 9>>) >>)

\* a puzzle of 30 givens whose only solution is BaseGrid
ClassicGrid ==
  Arr(<< Arr(<<5, 3, 0, 0, 7, 0, 0, 0, 0>>),
         Arr(<<6, 0, 0, 1, 9, 5, 0, 0, 0>>),
         Arr(<<0, 9, 8, 0, 0, 0, 0, 6, 0>>),
         Arr(<<8, 0, 0, 0, 6, 0, 0, 0, 3>>),
         Arr(<<4, 0, 0, 8, 0, 3, 0, 0, 1>>),
         Arr(<<7, 0, 0, 0, 2, 0, 0, 0, 6>>),
         Arr(<<0, 6, 0, 0, 0, 0, 2, 8, 0>>),
         Arr(<<0, 0, 0, 4, 1, 9, 0, 0, 5>>),
         Arr(<<0, 0, 0, 0, 8, 0, 0, 7, 9>>) >>)

\* ClassicGrid with fewer givens: still one solution, found after dead ends
HardGrid ==
  Arr(<< Arr(<<5, 3, 0, 0, 7, 0, 0, 0, 0>>),
         Arr(<<6, 0, 0, 0, 9, 5, 0, 0, 0>>),
         Arr(<<0, 0, 8, 0, 0, 0, 0, 6, 0>>),
         Arr(<<8, 0, 0, 0, 6, 0, 0, 0, 3>>),
         Arr(<<4, 0, 0, 8, 0, 0, 0, 0, 1>>),
         Arr(<<7, 0, 0, 0, 2, 0, 0, 0, 0>>),
         Arr(<<0, 6, 0, 0, 0, 0, 2, 8, 0>>),
         Arr(<<0, 0, 0, 4, 1, 9, 0, 0, 5>>),
         Arr(<<0, 0, 0, 0, 8, 0, 0, 7, 9>>) >>)

\* the grid of the input "*" (cmd.go: 81 dots)
EmptyGrid == ZeroGrid

\* The cells that vary in the small input grids, and the digit each may hold
\* instead of BaseGrid's.  Cells 1, 3, 4, 2 are a rectangle over four boxes
\* (digits 5 1 / 1 5); cells 5, 6, 7, 2 are a rectangle over two boxes whose
\* digits can be exchanged (5 4 / 4 5), and so are cells 8, 9, 10, 3 (1 3 / 3 1).
HolePos ==
  << [row |-> 4, column |-> 4, alt |-> 1], [row |-> 7, column |-> 8, alt |-> 4],
     [row |-> 4, column |-> 8, alt |-> 5], [row |-> 7, column |-> 4, alt |-> 5],
     [row |-> 6, column |-> 3, alt |-> 4], [row |-> 6, column |-> 8, alt |-> 5],
     [row |-> 7, column |-> 3, alt |-> 5], [row |-> 3, column |-> 5, alt |-> 3],
     [row |-> 3, column |-> 8, alt |-> 1], [row |-> 4, column |-> 5, alt |-> 1] >>

\* choice[i] = 0: keep BaseGrid's digit, 1: blank, 2: the other digit
Punch(choice) ==
  [y \in Idx |-> [x \in Idx |->
     IF \E i \in DOMAIN choice : HolePos[i].row = y /\ HolePos[i].column = x
     THEN LET i == CHOOSE i \in DOMAIN choice : HolePos[i].row = y /\ HolePos[i].column = x
          IN CASE choice[i] = 0 -> BaseGrid[y][x]
               [] choice[i] = 1 -> 0
               [] OTHER -> HolePos[i].alt
     ELSE BaseGrid[y][x]]]

Choices ==
  {c \in [1 .. MaxHoles -> {0, 1, 2}] : \A i \in 1 .. MaxHoles : i > MaxAlts => c[i] # 2}

\* BaseGrid without the cells of its two exchangeable rectangles: 4 solutions
FourGrid ==
  [y \in Idx |-> [x \in Idx |->
     IF <<y, x>> \in {<<3, 5>>, <<3, 8>>, <<4, 5>>, <<4, 8>>,
                      <<6, 3>>, <<6, 8>>, <<7, 3>>, <<7, 8>>}
     THEN 0 ELSE BaseGrid[y][x]]]

\* the small input grids: BaseGrid with some cells blanked or changed
Puzzles == {Punch(c) : c \in Choices} \cup {FourGrid}

\* the large input grids
LargePuzzles == {EmptyGrid, ClassicGrid, HardGrid}

\* ------------------------------------------------------------------------
\* The caller: one puzzle, one engine, Solve() and Solution() calls
\* ------------------------------------------------------------------------

VARIABLES
  puzzle,    \* the input grid (digits 0..9)
  s,         \* the Solver the returned pointer refers to
  nil,       \* the pointer returned by NewSolver is nil
  err,       \* NewSolver returned an error
  pc,        \* "start", "failed", "idle", "loop" (inside the for loop of Solve)
  results,   \* what each completed Solve() call did: "true", "false", "panic"
  read,      \* Solution() was called since the last Solve()
  out,       \* what that Solution() call did
  returned,  \* the grids read from Solution() after Solve() returned true
  two,       \* two engines side by side and the memory their trackers live in
  drv,       \* the driver in all-solutions mode: flags, counters, output
  call       \* flipBit called on its own: arguments and the trackers seen

vars == <<puzzle, s, nil, err, pc, results, read, out, returned, two, drv, call>>

NoOut == [called |-> FALSE, panic |-> FALSE, grid |-> ZeroGrid]

\* no second engine: the program runs one engine at a time
NoTwo == [mem |-> << >>, e |-> << >>]

\* the driver's loop over the solutions is not running
NoDrv == << >>

\* flipBit is not being called on its own
NoCall == << >>

Last(q) == q[Len(q)]

InitWith(grids) ==
  /\ puzzle \in grids
  /\ s = ZeroSolver
  /\ nil = TRUE
  /\ err = FALSE
  /\ pc = "start"
  /\ results = << >>
  /\ read = FALSE
  /\ out = NoOut
  /\ returned = << >>
  /\ two = NoTwo
  /\ drv = NoDrv
  /\ call = NoCall

\* s, err := solver.NewSolver(puzzleInput); the driver exits on an error
CallNewSolver ==
  /\ pc = "start"
  /\ \E r \in {NewSolver(puzzle)} :
       /\ s' = r.solver
       /\ nil' = r.nil
       /\ err' = r.err
       /\ pc' = IF r.err THEN "failed" ELSE "idle"
  /\ UNCHANGED <<puzzle, results, read, out, returned, two, drv, call>>

\* SolveEnter without the test of s.done
SolveEnterNoDone ==
  /\ pc = "idle"
  /\ Len(results) < MaxCalls
  /\ (results # << >> /\ Last(results) = "true") => read
  /\ results' = results
  /\ pc' = "loop"
  /\ read' = FALSE
  /\ out' = NoOut
  /\ UNCHANGED <<puzzle, s, nil, err, returned, two, drv, call>>

\* s.Solve() is called: the test of s.done, then the loop is entered
SolveEnter ==
  /\ pc = "idle"
  /\ Len(results) < MaxCalls
  /\ (results # << >> /\ Last(results) = "true") => read
  /\ IF s.done
     THEN /\ results' = Append(results, "false")
          /\ pc' = "idle"
     ELSE /\ results' = results
          /\ pc' = "loop"
  /\ read' = FALSE
  /\ out' = NoOut
  /\ UNCHANGED <<puzzle, s, nil, err, returned, two, drv, call>>

\* one pass of the for loop of Solve
SolveStep ==
  /\ pc = "loop"
  /\ \E r \in {SolveIteration(s)} :
       /\ s' = r.s
       /\ IF r.outcome = "continue"
          THEN /\ pc' = "loop"
               /\ results' = results
          ELSE /\ pc' = "idle"
               /\ results' = Append(results, r.outcome)
  /\ UNCHANGED <<puzzle, nil, err, read, out, returned, two, drv, call>>

\* s.Solution() is called between two Solve() calls
CallSolution ==
  /\ pc = "idle"
  /\ ~read
  /\ \E r \in {Solution(s)} :
       /\ out' = [called |-> TRUE, panic |-> r.panic, grid |-> r.grid]
       /\ returned' = IF results # << >> /\ Last(results) = "true" /\ ~r.panic
                      THEN Append(returned, r.grid)
                      ELSE returned
  /\ read' = TRUE
  /\ UNCHANGED <<puzzle, s, nil, err, pc, results, two, drv, call>>

Next ==
  \/ CallNewSolver
  \/ SolveEnter
  \/ SolveStep
  \/ CallSolution

Init == InitWith(Puzzles)

InitLarge == InitWith(LargePuzzles)

\* the small input grids
Spec == Init /\ [][Next]_vars

\* the large input grids
SpecLarge == InitLarge /\ [][Next]_vars

\* The small input grids, with the progress the code makes: the for loop of
\* Solve has no suspension point, so a pass that can be made is made, and the
\* driver's "for s.Solve()" loop calls Solve and reads Solution after each true.
\* CallNewSolver can be taken exactly when pc = "start" and SolveStep exactly
\* when pc = "loop" (each changes pc or s.iterations), so weak fairness of
\* these two is written out with that state predicate for ENABLED.
SpecFair ==
  /\ Init /\ [][Next]_vars
  /\ WF_vars(SolveEnter) /\ WF_vars(CallSolution)
  /\ ([]<>(pc # "start") \/ []<><<CallNewSolver>>_vars)
  /\ ([]<>(pc # "loop") \/ []<><<SolveStep>>_vars)

\* ------------------------------------------------------------------------
\* Two engines whose Solve() calls are interleaved.  two.mem is the memory
\* that holds candidates values: address 0 is the package variable
\* initialCandidates, and the globalCandidates field of a Solver is at the
\* address of that Solver.  two.e[k] is engine k: its input, the address of
\* its Solver, the other fields of the Solver, where it is in Solve(), and
\* the log of its completed Solve() calls.
\* ------------------------------------------------------------------------

Engines == 1 .. 2

Addrs == 0 .. 2

\* "sudoku := Solver{globalCandidates: initialCandidates, ...}" copies the
\* arrays into a Solver of its own, whose address "&sudoku" is returned
newSolverAddr(k) == k

\* BaseGrid with the cells HolePos[i], i \in S, blank
Hole(S) == Punch([i \in 1 .. MaxHoles |-> IF i \in S THEN 1 ELSE 0])

\* BaseGrid with a 1 in place of the 5 of the centre cell: a duplicate
DupGrid == Punch([i \in 1 .. MaxHoles |-> IF i = 1 THEN 2 ELSE 0])

\* no blank cell; two solutions; four solutions; inconsistent
TwoPuzzles == {BaseGrid, Hole({2, 5, 6, 7}), FourGrid, DupGrid}

NoEngine(g) ==
  [puzzle |-> g, addr |-> -1, s |-> ZeroSolver, pc |-> "start", log |-> << >>]

\* the Solver of engine k, with the field that lives in memory
Deref(t, k) == [t.e[k].s EXCEPT !.globalCandidates = t.mem[t.e[k].addr]]

\* the fields of a Solver kept in the engine record
Detached(sv) == [sv EXCEPT !.globalCandidates = ZeroSolver.globalCandidates]

\* what a caller sees of one Solve() call: the value returned, the grid of
\* Solution() after a true, and Iterations()
Entry(sv, outcome) ==
  [ret        |-> outcome,
   grid       |-> IF outcome = "true" THEN Solution(sv).grid ELSE ZeroGrid,
   iterations |-> Iterations(sv)]

\* engine k's Solver becomes sv, it moves to pc, and its log becomes log
Written(t, k, sv, newpc, log) ==
  [mem |-> [t.mem EXCEPT ![t.e[k].addr] = sv.globalCandidates],
   e   |-> [t.e EXCEPT ![k] = [@ EXCEPT !.s = Detached(sv), !.pc = newpc, !.log = log]]]

InitTwo ==
  /\ puzzle = ZeroGrid
  /\ s = ZeroSolver
  /\ nil = TRUE
  /\ err = FALSE
  /\ pc = "two"
  /\ results = << >>
  /\ read = FALSE
  /\ out = NoOut
  /\ returned = << >>
  /\ drv = NoDrv
  /\ call = NoCall
  /\ \E g1 \in TwoPuzzles : \E g2 \in TwoPuzzles :
       two = [mem |-> [a \in Addrs |-> IF a = 0 THEN initialCandidates
                                       ELSE ZeroSolver.globalCandidates],
              e   |-> <<NoEngine(g1), NoEngine(g2)>>]

one == <<puzzle, s, nil, err, pc, results, read, out, returned, drv, call>>

TwoNewSolver(k) ==
  /\ two.e[k].pc = "start"
  /\ \E r \in {NewSolverFrom(two.mem[0], two.e[k].puzzle)} :
       two' = IF r.err
              THEN [two EXCEPT !.e[k].pc = "failed"]
              ELSE Written([two EXCEPT !.e[k].addr = newSolverAddr(k)],
                           k, r.solver, "idle", << >>)
  /\ UNCHANGED one

TwoSolveEnter(k) ==
  /\ two.e[k].pc = "idle"
  /\ Len(two.e[k].log) < MaxTwoCalls
  /\ \E sv \in {Deref(two, k)} :
       two' = IF sv.done
              THEN Written(two, k, sv, "idle", Append(two.e[k].log, Entry(sv, "false")))
              ELSE Written(two, k, sv, "loop", two.e[k].log)
  /\ UNCHANGED one

TwoSolveStep(k) ==
  /\ two.e[k].pc = "loop"
  /\ \E r \in {SolveIteration(Deref(two, k))} :
       two' = IF r.outcome = "continue"
              THEN Written(two, k, r.s, "loop", two.e[k].log)
              ELSE Written(two, k, r.s, "idle",
                           Append(two.e[k].log, Entry(r.s, r.outcome)))
  /\ UNCHANGED one

NextTwo ==
  \/ \E k \in Engines : TwoNewSolver(k)
  \/ \E k \in Engines : TwoSolveEnter(k)
  \/ \E k \in Engines : TwoSolveStep(k)

SpecTwo == InitTwo /\ [][NextTwo]_vars

\* ------------------------------------------------------------------------
\* The driver (main.go) on one puzzle, with flags.DontSolve false.  drv holds
\* the flags, the statistics variables and what has been printed.
\* ------------------------------------------------------------------------

\* one solution; no blank cell; two solutions; four solutions; inconsistent
DriverPuzzles == {Hole({1, 2})} \cup TwoPuzzles

\* a line of output: a solution grid, a count line ("%d" or "%d (limit)"),
\* "No solution", an error, or one of the lines of statistics: "Total
\* puzzles: %d", "Total solutions: %d%s", "Total iterations: %d", "Time taken"
Line(kind, grid, n, limit) == [kind |-> kind, grid |-> grid, n |-> n, limit |-> limit]

\* !(flags.ShowStats && flags.Quiet)
Verbose(d) == ~(d.showStats /\ d.quiet)

InitDriver ==
  /\ puzzle \in DriverPuzzles
  /\ s = ZeroSolver
  /\ nil = TRUE
  /\ err = FALSE
  /\ pc = "start"
  /\ results = << >>
  /\ read = FALSE
  /\ out = NoOut
  /\ returned = << >>
  /\ two = NoTwo
  /\ call = NoCall
  /\ \E all \in BOOLEAN, limit \in 0 .. MaxLimit, countsOnly \in BOOLEAN,
        showStats \in BOOLEAN, quiet \in BOOLEAN :
       drv = [all |-> all, limit |-> limit, countsOnly |-> countsOnly,
              showStats |-> showStats, quiet |-> quiet,
              solutionCount |-> 0, totalSolutions |-> 0, globalLimit |-> FALSE,
              puzzleCount |-> 0, iterations |-> 0, printed |-> << >>]

\* lines 43-47 and the tests of lines 48 and 54
DriverNewSolver ==
  /\ pc = "start"
  /\ \E r \in {NewSolver(puzzle)} :
       /\ s' = r.solver
       /\ nil' = r.nil
       /\ err' = r.err
       /\ pc' = IF r.err THEN "exit" ELSE IF drv.all THEN "for" ELSE "single"
       /\ drv' = IF r.err
                 THEN [drv EXCEPT !.printed = Append(@, Line("error", ZeroGrid, 0, FALSE))]
                 ELSE drv
  /\ UNCHANGED <<puzzle, results, read, out, returned, two, call>>

\* lines 56 and 88: s.Solve() is called: the test of s.done, then the loop
\* of Solve is entered
DriverSolve ==
  /\ pc = "for" \/ pc = "single"
  /\ IF s.done
     THEN /\ results' = Append(results, "false")
          /\ pc' = IF drv.all THEN "after" ELSE "else"
     ELSE /\ results' = results
          /\ pc' = "solve"
  /\ UNCHANGED <<puzzle, s, nil, err, read, out, returned, two, drv, call>>

\* one pass of the for loop of Solve; its return value decides where the
\* driver goes on (lines 56 and 88)
DriverSolveStep ==
  /\ pc = "solve"
  /\ \E r \in {SolveIteration(s)} :
       /\ s' = r.s
       /\ results' = IF r.outcome = "continue" THEN results
                                               ELSE Append(results, r.outcome)
       /\ pc' = CASE r.outcome = "continue" -> "solve"
                   [] r.outcome = "true" -> IF drv.all THEN "body" ELSE "then"
                   [] r.outcome = "false" -> IF drv.all THEN "after" ELSE "else"
                   [] OTHER -> "crashed"
  /\ UNCHANGED <<puzzle, nil, err, read, out, returned, two, drv, call>>

\* lines 57-69: the body of the for loop
DriverBody ==
  /\ pc = "body"
  /\ LET d1 == [drv EXCEPT !.iterations = @ + Iterations(s),
                           !.solutionCount = @ + 1]
     IN IF d1.solutionCount > d1.limit /\ d1.limit # 0
        THEN /\ drv' = [d1 EXCEPT !.solutionCount = @ - 1, !.globalLimit = TRUE]
             /\ pc' = "after"
        ELSE /\ drv' = IF ~d1.countsOnly /\ Verbose(d1)
                       THEN [d1 EXCEPT !.printed =
                               Append(@, Line("solution", Solution(s).grid, 0, FALSE))]
                       ELSE d1
             /\ pc' = "for"
  /\ UNCHANGED <<puzzle, s, nil, err, results, read, out, returned, two, call>>

\* lines 71-86: after the for loop
DriverAfter ==
  /\ pc = "after"
  /\ LET d1 == [drv EXCEPT !.totalSolutions = @ + drv.solutionCount]
     IN drv' = IF d1.countsOnly /\ Verbose(d1)
               THEN [d1 EXCEPT !.printed =
                       Append(@, IF d1.solutionCount > d1.limit /\ d1.limit # 0
                                 THEN Line("count", ZeroGrid, d1.limit, TRUE)
                                 ELSE Line("count", ZeroGrid, d1.solutionCount, FALSE))]
               ELSE d1
  /\ pc' = "stats"
  /\ UNCHANGED <<puzzle, s, nil, err, results, read, out, returned, two, call>>

\* lines 89-99: after the single Solve() when flags.All is false
DriverSingle ==
  /\ pc = "then" \/ pc = "else"
  /\ drv' = IF pc = "then"
            THEN LET d1 == [drv EXCEPT !.iterations = @ + Iterations(s),
                                       !.totalSolutions = @ + 1]
                 IN IF Verbose(d1)
                    THEN [d1 EXCEPT !.printed =
                            Append(@, Line("solution", Solution(s).grid, 0, FALSE))]
                    ELSE d1
            ELSE [drv EXCEPT !.printed = Append(@, Line("nosolution", ZeroGrid, 0, FALSE))]
  /\ pc' = "stats"
  /\ UNCHANGED <<puzzle, s, nil, err, results, read, out, returned, two, call>>

\* lines 30-36 and 103-113: the puzzle is counted, the next read finds the end
\* of the input, and the four lines of statistics are printed.  The duration
\* on the line "Time taken" is not a value of the model.
DriverStats ==
  /\ pc = "stats"
  /\ LET d1 == [drv EXCEPT !.puzzleCount = @ + 1]
     IN drv' = IF d1.showStats
               THEN [d1 EXCEPT !.printed =
                       @ \o << Line("puzzles", ZeroGrid, d1.puzzleCount, FALSE),
                               Line("stats", ZeroGrid, d1.totalSolutions, d1.globalLimit),
                               Line("iterations", ZeroGrid, d1.iterations, FALSE),
                               Line("time", ZeroGrid, 0, FALSE) >>]
               ELSE d1
  /\ pc' = "end"
  /\ UNCHANGED <<puzzle, s, nil, err, results, read, out, returned, two, call>>

NextDriver ==
  \/ DriverNewSolver
  \/ DriverSolve
  \/ DriverSolveStep
  \/ DriverBody
  \/ DriverAfter
  \/ DriverSingle
  \/ DriverStats

SpecDriver == InitDriver /\ [][NextDriver]_vars

\* the lines of one kind that were printed
Printed(kind) == {i \in DOMAIN drv.printed : drv.printed[i].kind = kind}

\* ------------------------------------------------------------------------
\* flipBit on its own: one cell and one digit bit, flipped up to MaxFlips
\* times on the tracker NewSolver built
\* ------------------------------------------------------------------------

\* all candidates everywhere; none anywhere; a tracker with both
FlipPuzzles == {EmptyGrid, BaseGrid, Hole({2, 5, 6, 7})}

\* the masks of one digit
DigitBits == {1, 2, 4, 8, 16, 32, 64, 128, 256}

InitFlip ==
  /\ puzzle \in FlipPuzzles
  /\ s = NewSolver(puzzle).solver
  /\ nil = FALSE
  /\ err = FALSE
  /\ pc = "flip"
  /\ results = << >>
  /\ read = FALSE
  /\ out = NoOut
  /\ returned = << >>
  /\ two = NoTwo
  /\ drv = NoDrv
  /\ \E x \in 0 .. sudokuSize - 1, y \in 0 .. sudokuSize - 1, bit \in DigitBits :
       call = [x |-> x, y |-> y, bit |-> bit, seen |-> <<s.globalCandidates>>]

\* c.flipBit(x, y, bit) on the tracker of s
CallFlipBit ==
  /\ pc = "flip"
  /\ Len(call.seen) <= MaxFlips
  /\ s' = [s EXCEPT !.globalCandidates = flipBit(@, call.x, call.y, call.bit)]
  /\ call' = [call EXCEPT !.seen = Append(@, s'.globalCandidates)]
  /\ UNCHANGED <<puzzle, nil, err, pc, results, read, out, returned, two, drv>>

SpecFlip == InitFlip /\ [][CallFlipBit]_vars

\* ------------------------------------------------------------------------
\* The rules of the puzzle, stated on digit grids without the solver's masks
\* ------------------------------------------------------------------------

Cells == Idx \X Idx

DigitAt(g, c) == g[c[1]][c[2]]

RowUnit(y) == {c \in Cells : c[1] = y}

ColumnUnit(x) == {c \in Cells : c[2] = x}

BoxUnit(b) == {c \in Cells : (c[1] \div 3) * 3 + (c[2] \div 3) = b}

Units ==
  {RowUnit(y) : y \in Idx} \cup {ColumnUnit(x) : x \in Idx} \cup {BoxUnit(b) : b \in Idx}

\* every unit holds each digit 1..9 exactly once
ValidGrid(g) ==
  \A u \in Units : \A d \in 1 .. 9 : Cardinality({c \in u : DigitAt(g, c) = d}) = 1

DuplicateIn(g, u) ==
  \E c1 \in u : \E c2 \in u : c1 # c2 /\ DigitAt(g, c1) # 0 /\ DigitAt(g, c1) = DigitAt(g, c2)

RowDuplicate(g) == \E y \in Idx : DuplicateIn(g, RowUnit(y))

ColumnDuplicate(g) == \E x \in Idx : DuplicateIn(g, ColumnUnit(x))

BoxDuplicate(g) == \E b \in Idx : DuplicateIn(g, BoxUnit(b))

HasDuplicate(g) == RowDuplicate(g) \/ ColumnDuplicate(g) \/ BoxDuplicate(g)

Blanks(g) == {c \in Cells : DigitAt(g, c) = 0}

\* digit d is in no cell of the row, the column and the box of cell c
CanPlace(g, c, d) ==
  \A c2 \in Cells :
    (c2[1] = c[1] \/ c2[2] = c[2]
       \/ (c2[1] \div 3 = c[1] \div 3 /\ c2[2] \div 3 = c[2] \div 3))
    => DigitAt(g, c2) # d

\* all the solutions of grid g: its valid completions
RECURSIVE RefSolutions(_)
RefSolutions(g) ==
  IF Blanks(g) = {} THEN (IF ValidGrid(g) THEN {g} ELSE {})
  ELSE LET c == CHOOSE c \in Blanks(g) :
                  \A c2 \in Blanks(g) : c[1] * 9 + c[2] <= c2[1] * 9 + c2[2]
       IN UNION {RefSolutions([g EXCEPT ![c[1]][c[2]] = d]) :
                   d \in {d \in 1 .. 9 : CanPlace(g, c, d)}}

\* the cell at index i of the search order
SearchCell(sv, i) == <<At(sv, i).row, At(sv, i).column>>

\* the decided cells: indices 0 .. frontier of the search order
DecidedCells(sv) == {SearchCell(sv, i) : i \in 0 .. sv.currentSearchCell}

\* the undecided cells: indices frontier + 1 .. end of the search order
UndecidedCells(sv) ==
  {SearchCell(sv, i) : i \in (sv.currentSearchCell + 1) .. (Len(sv.cellSearchSpace) - 1)}

\* the cells filled in the input grid
GivenCells(g) == Cells \ Blanks(g)

\* the digit (0 for none) that the solver's grid holds in cell c
HeldDigit(sv, c) == bitToNumber[sv.cells[c[1]][c[2]]]

\* the digits of the given and of the decided cells of unit u
UnitDigits(g, sv, u) ==
  {DigitAt(g, c) : c \in u \cap GivenCells(g)}
    \cup {HeldDigit(sv, c) : c \in u \cap DecidedCells(sv)}

\* mask m has exactly the bits of the digits 1..9 that are not in D
MaskLacks(m, D) ==
  /\ m \in Masks
  /\ \A d \in 1 .. 9 : (BitAnd(m, Shl1(d - 1)) = 0) <=> (d \in D)

\* the partial assignment: the digits of the given and of the decided cells,
\* 0 elsewhere
PartialGrid(g, sv) ==
  LET D == DecidedCells(sv) IN
  [y \in Idx |-> [x \in Idx |->
     IF g[y][x] # 0 THEN g[y][x]
     ELSE IF <<y, x>> \in D THEN HeldDigit(sv, <<y, x>>)
     ELSE 0]]

\* the positions of the bits set in mask m
BitsOf(m) == {n \in 0 .. (sudokuSize - 1) : (m \div Shl1(n)) % 2 = 1}

\* the value of the lowest and of the highest bit set in a non-zero mask
LowestBit(m) == Shl1(CHOOSE n \in BitsOf(m) : \A k \in BitsOf(m) : n <= k)

HighestBit(m) == Shl1(CHOOSE n \in BitsOf(m) : \A k \in BitsOf(m) : n >= k)

\* this step is a loop pass of Solve that assigns a candidate (lines 343-351)
Assigns ==
  /\ pc = "loop"
  /\ ~s'.done
  /\ ~(results' # results /\ Last(results') = "panic")

\* the cell that is the frontier cell after this step
FrontierCellAfter == SearchCell(s', s'.currentSearchCell)

\* the remaining-candidates mask the candidate of this step is taken from:
\* the AND of the three unit masks for a cell selected in this step, the
\* stored mask for a cell that was decided before
MaskTakenFrom ==
  IF s'.currentSearchCell = s.currentSearchCell + 1
  THEN getCellCandidates(s.globalCandidates, FrontierCellAfter[2], FrontierCellAfter[1])
  ELSE s.cellCandidates[FrontierCellAfter[1]][FrontierCellAfter[2]]

\* the indices of the undecided suffix of the search order
SuffixIdx(sv) == (sv.currentSearchCell + 1) .. (Len(sv.cellSearchSpace) - 1)

\* the digits the rules exclude from the cell at index i of the search order
ExcludedAt(sv, i) ==
  UnitDigits(puzzle, sv, RowUnit(At(sv, i).row))
    \cup UnitDigits(puzzle, sv, ColumnUnit(At(sv, i).column))
    \cup UnitDigits(puzzle, sv, BoxUnit(boxLookup[At(sv, i).row][At(sv, i).column]))

\* how many digits the rules allow in the cell at index i of the search order
CountAt(sv, i) == Cardinality((1 .. 9) \ ExcludedAt(sv, i))

\* every index of the suffix with the count of its cell
CountPairs(sv) == {<<i, CountAt(sv, i)>> : i \in SuffixIdx(sv)}

\* the suffix has a cell without candidate
ZeroInSuffix(sv) == \E p \in CountPairs(sv) : p[2] = 0

\* the suffix has a cell without candidate and no cell before it in the
\* suffix has exactly one candidate
ZeroBeforeOne(sv) ==
  LET P == CountPairs(sv) IN
  \E z \in P : z[2] = 0 /\ \A p \in P : p[1] < z[1] => p[2] # 1

\* the indices the scan visits, with their counts: the suffix up to its
\* first cell with exactly one candidate
Scanned(sv) ==
  LET P == CountPairs(sv) IN
  {p \in P : \A q \in P : q[1] < p[1] => q[2] # 1}

\* the first scanned index whose count is the smallest of the scanned
\* counts, with that count
FirstFewest(sv) ==
  LET S == Scanned(sv) IN
  CHOOSE p \in S : \A q \in S : p[2] < q[2] \/ (p[2] = q[2] /\ p[1] <= q[1])

\* Cell Selection on sv selects a cell
Selects(sv) ==
  LET r == searchNextCellToTry(sv) IN
  ~r.ret /\ r.s.currentSearchCell # sv.currentSearchCell

\* Cell Selection signals DeadEnd on sv: it returns false and changes nothing
SignalsDeadEnd(sv) ==
  LET r == searchNextCellToTry(sv) IN ~r.ret /\ r.s = sv

\* the next loop pass of Solve meets a dead end: searchNextCellToTry
\* returns false without selecting a cell
DeadEndNext(sv) ==
  LET sr == searchNextCellToTry([sv EXCEPT !.iterations = @ + 1]) IN
  ~sr.ret /\ sr.s.currentSearchCell = sv.currentSearchCell

\* the calls of Solve() that returned v
CallsThatGave(v) == {i \in DOMAIN results : results[i] = v}

\* a Solve() call has returned false
Exhausted == CallsThatGave("false") # {}

\* the calls before the first one that returned false
BeforeFirstFalse == {i \in DOMAIN results : \A j \in 1 .. i : results[j] # "false"}

Range(q) == {q[i] : i \in DOMAIN q}

\* ------------------------------------------------------------------------
\* Claims
\* ------------------------------------------------------------------------

\* C1 Validity: whenever Solve() has returned true, the grid Solution()
\* returns has each digit 1..9 exactly once in every row, column and box;
\* so has every grid the caller has read after a Solve() that returned true.
C1_Validity ==
  /\ (pc = "idle" /\ results # << >> /\ Last(results) = "true") =>
        (~Solution(s).panic /\ ValidGrid(Solution(s).grid))
  /\ \A i \in DOMAIN returned : ValidGrid(returned[i])

\* the second solution of a puzzle has been returned and read
C1_Witness ==
  /\ pc = "idle" /\ Len(results) >= 2 /\ results[2] = "true"
  /\ read /\ Len(returned) = 2 /\ Blanks(puzzle) # {}

\* C2 Exhaustive enumeration: when Solve() has returned false, the calls
\* before the first false all returned true, they are as many as the puzzle
\* has solutions, and the grids they gave are exactly the puzzle's solutions.
C2_Exhaustive ==
  (pc = "idle" /\ Exhausted) =>
     /\ \A i \in BeforeFirstFalse : results[i] = "true"
     /\ Cardinality(BeforeFirstFalse) = Cardinality(RefSolutions(puzzle))
     /\ Range(returned) = RefSolutions(puzzle)

\* Solve() returned false after the four solutions of a puzzle
C2_Witness ==
  /\ pc = "idle" /\ Exhausted
  /\ Cardinality(RefSolutions(puzzle)) = 4 /\ Len(returned) = 4

\* C3 Uniqueness termination: on a puzzle with exactly one solution the first
\* Solve() returns true, Solution() then gives that solution, and the second
\* Solve() returns false.
C3_UniqueTermination ==
  (pc = "idle" /\ results # << >> /\ Cardinality(RefSolutions(puzzle)) = 1) =>
     /\ results[1] = "true"
     /\ Len(results) = 1 => (~Solution(s).panic /\ Solution(s).grid \in RefSolutions(puzzle))
     /\ Len(results) >= 2 => results[2] = "false"

\* C4 Construction validation: NewSolver returns an error, and a nil engine,
\* exactly when the input has the same digit twice in a row, column or box;
\* otherwise it returns no error and an engine that holds the input grid, its
\* blank cells as the search order and currentSearchCell -1.
\* (Stated of the states in which NewSolver has just returned.)
C4_Construction ==
  (pc = "failed" \/ (pc = "idle" /\ results = << >>)) =>
     /\ err <=> HasDuplicate(puzzle)
     /\ nil <=> err
     /\ (pc = "failed") <=> err
     /\ ~err => /\ s.currentSearchCell = -1
                /\ Range(s.cellSearchSpace) =
                     {[row |-> c[1], column |-> c[2]] : c \in Blanks(puzzle)}
                /\ \A c \in Cells :
                     bitToNumber[s.cells[c[1]][c[2]]] = DigitAt(puzzle, c)

\* construction failed on a grid whose only duplicate is inside a box
C4_Witness ==
  /\ pc = "failed" /\ err /\ nil
  /\ BoxDuplicate(puzzle) /\ ~RowDuplicate(puzzle) /\ ~ColumnDuplicate(puzzle)

\* C5 Totality: no Solve() call on a constructed engine ends in a runtime
\* error (the current cell is never read while currentSearchCell is -1).
C5_Totality == CallsThatGave("panic") = {}

\* C6 No-solution is a value: on a consistent grid without solution the first
\* Solve() returns false and the engine is then exhausted.
C6_NoSolutionIsFalse ==
  (pc = "idle" /\ results # << >> /\ RefSolutions(puzzle) = {}) =>
     (results[1] = "false" /\ s.done)

\* C7 Idempotence after exhaustion: once a Solve() call has returned false,
\* every later Solve() call returns false and leaves Iterations() unchanged.
C7_Idempotent ==
  [][Exhausted =>
       /\ Iterations(s') = Iterations(s)
       /\ results' # results => Last(results') = "false"]_vars

\* Solve() was called twice more after it had returned false
C7_Witness ==
  /\ pc = "idle" /\ Len(results) >= 3
  /\ Cardinality(CallsThatGave("false")) >= 3
  /\ CallsThatGave("true") # {}

\* C8 Enumeration under a cap: on a puzzle with at least N solutions the first
\* N Solve() calls return true and the grids read after them are valid and
\* pairwise distinct.
C8_EnumerationUnderCap ==
  pc = "idle" =>
    \A n \in DOMAIN results :
      Cardinality(RefSolutions(puzzle)) >= n =>
         /\ results[n] = "true"
         /\ \A i \in DOMAIN returned : ValidGrid(returned[i])
         /\ \A i \in DOMAIN returned : \A j \in DOMAIN returned :
               i # j => returned[i] # returned[j]

\* C9 Invalid usage: Solution() panics exactly as long as no Solve() call has
\* returned true.
C9_InvalidUsage ==
  pc = "idle" =>
     /\ Solution(s).panic <=> (CallsThatGave("true") = {})
     /\ out.called => (out.panic <=> (CallsThatGave("true") = {}))

\* C10 Empty-grid sanity: NewSolver succeeds on the all-blank grid, with every
\* cell in the search order, currentSearchCell -1 and all masks full, and the
\* first Solve() returns true with a valid grid.
C10_EmptyGrid ==
  (puzzle = EmptyGrid /\ pc # "start") =>
     /\ ~err /\ ~nil /\ pc # "failed"
     /\ {[row |-> c[1], column |-> c[2]] : c \in Cells} = Range(s.cellSearchSpace)
     /\ Len(s.cellSearchSpace) = sudokuSize * sudokuSize
     /\ (pc = "idle" /\ results = << >>) =>
           /\ s.currentSearchCell = -1
           /\ \A i \in Idx : /\ s.globalCandidates.row[i] = initialCandidatesMask
                             /\ s.globalCandidates.column[i] = initialCandidatesMask
                             /\ s.globalCandidates.box[i] = initialCandidatesMask
     /\ results # << >> =>
           /\ results[1] = "true"
           /\ Len(results) = 1 => (~Solution(s).panic /\ ValidGrid(Solution(s).grid))

\* the first Solve() on the all-blank grid has returned and its grid was read
C10_Witness ==
  /\ puzzle = EmptyGrid /\ pc = "idle" /\ Len(results) = 1
  /\ out.called /\ ~out.panic /\ ValidGrid(out.grid)

\* every Solve() call that has entered its loop leaves it again
SolveLeavesLoop == (pc = "loop") ~> (pc = "idle")

\* C11 Termination: every Solve() call on a constructed engine returns true
\* or false after finitely many loop passes, and when Solve() is called again
\* and again a call eventually returns false.
C11_Termination ==
  /\ (pc = "loop") ~> (pc = "idle" /\ results # << >> /\ Last(results) \in {"true", "false"})
  /\ (pc = "idle") ~> Exhausted

\* C13 Tracker invariant: at every loop-iteration boundary of Solve() and
\* whenever Solve() has returned, the tracker mask of every row, column and
\* box is the full mask minus exactly the digits of the given cells and of the
\* decided cells (indices 0..frontier) of that unit.
C13_Tracker ==
  pc \in {"idle", "loop"} =>
    /\ \A y \in Idx : MaskLacks(s.globalCandidates.row[y], UnitDigits(puzzle, s, RowUnit(y)))
    /\ \A x \in Idx : MaskLacks(s.globalCandidates.column[x], UnitDigits(puzzle, s, ColumnUnit(x)))
    /\ \A b \in Idx : MaskLacks(s.globalCandidates.box[b], UnitDigits(puzzle, s, BoxUnit(b)))

\* a loop-iteration boundary after a dead end and a backtrack: a cell that
\* was decided is undecided again, and the frontier cell holds another digit
C13_Witness ==
  /\ pc = "loop" /\ s.currentSearchCell >= 0
  /\ \E c \in UndecidedCells(s) : HeldDigit(s, c) # 0
  /\ returned = << >>

\* when a loop pass meets a dead end, the frontier cell has no candidate left
\* to try, so Solve backtracks
DeadEndBacktracks ==
  (pc = "loop" /\ DeadEndNext(s) /\ InRange(s, s.currentSearchCell)) =>
     getCurrentCellCandidates(s) = 0

\* C14 Grid/partition invariant: at every loop-iteration boundary of Solve()
\* every decided cell holds a digit in the grid, that digit is removed from
\* the masks of its row, column and box, and every undecided cell is blank in
\* the grid, also one that was decided before and has been backtracked over.
C14_GridPartition ==
  pc = "loop" =>
    /\ \A c \in DecidedCells(s) :
          /\ HeldDigit(s, c) # 0
          /\ BitAnd(getCellCandidates(s.globalCandidates, c[2], c[1]),
                    s.cells[c[1]][c[2]]) = 0
    /\ \A c \in UndecidedCells(s) : s.cells[c[1]][c[2]] = 0

\* C15 Dead-end detection as claimed: whenever a cell of the undecided suffix
\* has no candidate when Cell Selection runs, wherever it lies in the suffix,
\* selection returns false, selects no cell and changes nothing.
C15_DeadEndAnywhere ==
  (pc = "loop" /\ ZeroInSuffix(s)) => SignalsDeadEnd(s)

\* C15 Dead-end detection, amended: selection signals DeadEnd (returns false,
\* selects no cell, changes nothing) exactly when the suffix has a cell
\* without candidate that lies before every cell with exactly one candidate;
\* otherwise, with a non-empty suffix, it advances the frontier by one.
C15_DeadEndSeen ==
  (pc = "loop" /\ SuffixIdx(s) # {}) =>
     /\ ZeroBeforeOne(s) => SignalsDeadEnd(s)
     /\ ~ZeroBeforeOne(s) =>
           searchNextCellToTry(s).s.currentSearchCell = s.currentSearchCell + 1

\* selection is about to signal a dead end met behind cells that have two
\* or more candidates, with some cell decided
C15_Witness ==
  /\ pc = "loop" /\ s.currentSearchCell >= 0 /\ SignalsDeadEnd(s)
  /\ ZeroBeforeOne(s)
  /\ CountAt(s, s.currentSearchCell + 1) >= 2

\* C16 Candidate order as claimed: the lookup table maps every non-zero mask
\* to its lowest set bit, and the digit assigned to the frontier cell in a
\* step is the lowest set bit of the cell's remaining-candidates mask, which
\* is removed from the mask (digits of a cell are tried in ascending order).
C16_LowestFirst ==
  [][/\ \A m \in Masks \ {0} : leftmostBitLookup[m] = LowestBit(m)
     /\ Assigns =>
          /\ s'.cells[FrontierCellAfter[1]][FrontierCellAfter[2]] = LowestBit(MaskTakenFrom)
          /\ s'.cellCandidates[FrontierCellAfter[1]][FrontierCellAfter[2]]
                = MaskTakenFrom - LowestBit(MaskTakenFrom)]_vars

\* C16 Candidate order, amended: the lookup table maps every non-zero mask to
\* its highest set bit, and the digit assigned to the frontier cell in a step
\* is the highest set bit (largest digit) of the cell's remaining-candidates
\* mask, which is removed from the mask (digits of a cell are tried in
\* descending order).
C16_HighestFirst ==
  [][/\ \A m \in Masks \ {0} : leftmostBitLookup[m] = HighestBit(m)
     /\ Assigns =>
          /\ s'.cells[FrontierCellAfter[1]][FrontierCellAfter[2]] = HighestBit(MaskTakenFrom)
          /\ s'.cellCandidates[FrontierCellAfter[1]][FrontierCellAfter[2]]
                = MaskTakenFrom - HighestBit(MaskTakenFrom)]_vars

\* the frontier cell holds the second digit tried for it: a second solution
\* is being searched, the cell holds a digit that the first solution has
\* not, and digits below it remain to be tried
C16_Witness ==
  /\ pc = "loop" /\ s.currentSearchCell >= 0 /\ Len(returned) = 1
  /\ LET c == SearchCell(s, s.currentSearchCell) IN
       /\ HeldDigit(s, c) # 0
       /\ HeldDigit(s, c) < DigitAt(returned[1], c)

\* C17 MRV selection: when Cell Selection selects a cell, it is the first
\* cell in scan order whose candidate count is the smallest among the scanned
\* cells; it is swapped into position frontier + 1, the frontier grows by
\* one, the cell's remaining-candidates mask becomes the set of digits that
\* its row, column and box allow, and nothing else changes.
C17_MRV ==
  (pc = "loop" /\ Selects(s)) =>
     LET t == searchNextCellToTry(s).s
         f == s.currentSearchCell + 1
         k == FirstFewest(s)[1]
         c == SearchCell(s, k)
     IN /\ t.currentSearchCell = f
        /\ FirstFewest(s)[2] > 0
        /\ At(t, f) = At(s, k)
        /\ At(t, k) = At(s, f)
        /\ \A i \in 0 .. (Len(s.cellSearchSpace) - 1) : i \notin {f, k} => At(t, i) = At(s, i)
        /\ Len(t.cellSearchSpace) = Len(s.cellSearchSpace)
        /\ MaskLacks(t.cellCandidates[c[1]][c[2]], ExcludedAt(s, k))
        /\ t = [s EXCEPT !.currentSearchCell = t.currentSearchCell,
                         !.cellSearchSpace = t.cellSearchSpace,
                         !.cellCandidates[c[1]][c[2]] = t.cellCandidates[c[1]][c[2]]]

\* selection is about to select, by a swap, a cell with two or more
\* candidates that is not the only scanned cell with that count
C17_Witness ==
  /\ pc = "loop" /\ Selects(s)
  /\ FirstFewest(s)[1] # s.currentSearchCell + 1
  /\ FirstFewest(s)[2] >= 2
  /\ \E q \in Scanned(s) : q[1] > FirstFewest(s)[1] /\ q[2] = FirstFewest(s)[2]

\* C18 Last solution surfaced once: when the loop pass that finds all cells
\* decided is also the one in which backtracking reaches frontier -1, that
\* Solve() call returns true and sets done, Solution() gives that complete
\* assignment, and every later Solve() call returns false.
C18_LastSolution ==
  [][/\ (/\ pc = "loop"
          /\ s.currentSearchCell >= 0
          /\ s.currentSearchCell = Len(s.cellSearchSpace) - 1
          /\ s'.currentSearchCell = -1) =>
            /\ results' = Append(results, "true")
            /\ pc' = "idle"
            /\ s'.done
            /\ ~Solution(s').panic
            /\ \A c \in Cells : DigitAt(Solution(s').grid, c) = HeldDigit(s, c)
            /\ ValidGrid(Solution(s').grid)
            /\ Solve(s').outcome = "false"
     /\ (s.done /\ results' # results) => Last(results') = "false"]_vars

\* the Solve() call that returned the second solution of a puzzle has also
\* exhausted the search
C18_Witness ==
  /\ pc = "idle" /\ s.done /\ s.currentSearchCell = -1
  /\ Len(results) = 2 /\ Last(results) = "true"
  /\ Len(returned) = 1

\* C19 Snapshot stability: the loop pass that finds all cells decided copies
\* the grid as it is then, and Solution() returns that copy whatever the same
\* pass backtracks and re-assigns afterwards; no other step changes what
\* Solution() returns, so after loop passes and Solve() calls that return
\* false it still returns the grid read after the last true.
C19_Snapshot ==
  /\ [][(pc = "idle" \/ pc = "loop") =>
          (IF pc = "loop" /\ s.currentSearchCell = Len(s.cellSearchSpace) - 1
           THEN /\ s'.lastSolution = s.cells
                /\ ~Solution(s').panic
                /\ \A c \in Cells : DigitAt(Solution(s').grid, c) = HeldDigit(s, c)
           ELSE Solution(s') = Solution(s))]_vars
  /\ [](( /\ pc \in {"idle", "loop"}
          /\ returned # << >>
          /\ ~(pc = "idle" /\ Last(results) = "true" /\ ~read)) =>
            (~Solution(s).panic /\ Solution(s).grid = Last(returned)))

\* Solve() has returned true after it backtracked and assigned another digit:
\* the grid being searched differs from the snapshot, which is a valid grid
C19_Witness ==
  /\ pc = "idle" /\ results # << >> /\ Last(results) = "true"
  /\ ~s.done /\ s.currentSearchCell >= 0
  /\ s.cells # s.lastSolution
  /\ ValidGrid(Solution(s).grid)

\* C20 Conflict-free partial assignment: at every loop-iteration boundary of
\* Solve() (and between calls) the given cells and the decided cells together
\* hold no digit twice in a row, column or box, and the digit a step assigns
\* to the frontier cell is in no other given or decided cell of the cell's
\* row, column and box.
C20_ConflictFree ==
  /\ []((pc = "idle" \/ pc = "loop") => ~HasDuplicate(PartialGrid(puzzle, s)))
  /\ [][Assigns =>
          /\ HeldDigit(s', FrontierCellAfter) \in 1 .. 9
          /\ CanPlace([PartialGrid(puzzle, s') EXCEPT
                         ![FrontierCellAfter[1]][FrontierCellAfter[2]] = 0],
                      FrontierCellAfter, HeldDigit(s', FrontierCellAfter))]_vars

\* a loop-iteration boundary with a partial assignment: some blank cells are
\* decided, others are not, while a second solution is searched
C20_Witness ==
  /\ pc = "loop" /\ returned # << >>
  /\ Cardinality(DecidedCells(s)) >= 2
  /\ UndecidedCells(s) # {}

\* C21 Search-order invariant: after construction and any Solve() steps the
\* search order holds exactly the cells that were blank in the input, each
\* once; -1 <= frontier <= len - 1; the engine is exhausted only with
\* frontier -1; and no step changes the order of the cells that stay decided.
C21_SearchOrder ==
  /\ []((pc = "idle" \/ pc = "loop") =>
          /\ Range(s.cellSearchSpace) =
                {[row |-> c[1], column |-> c[2]] : c \in Blanks(puzzle)}
          /\ Len(s.cellSearchSpace) = Cardinality(Blanks(puzzle))
          /\ -1 <= s.currentSearchCell
          /\ s.currentSearchCell <= Len(s.cellSearchSpace) - 1
          /\ s.done => s.currentSearchCell = -1)
  /\ [][(pc = "idle" \/ pc = "loop") =>
          \A i \in 0 .. s.currentSearchCell :
             i <= s'.currentSearchCell => At(s', i) = At(s, i)]_vars

\* cells are decided in an order that is not the order of construction,
\* while a second solution is searched
C21_Witness ==
  /\ pc = "loop" /\ s.currentSearchCell >= 1 /\ returned # << >>
  /\ s.cellSearchSpace # NewSolver(puzzle).solver.cellSearchSpace

\* C22 Pre-filled cells are preserved: no step after construction changes a
\* grid cell that is non-zero in the input, the grid keeps the input's digit
\* there, and every grid Solution() returns agrees with the input on it.
C22_GivenCellsKept ==
  /\ [][(pc = "idle" \/ pc = "loop") =>
          \A c \in GivenCells(puzzle) : s'.cells[c[1]][c[2]] = s.cells[c[1]][c[2]]]_vars
  /\ []((pc = "idle" \/ pc = "loop") =>
          /\ \A c \in GivenCells(puzzle) : HeldDigit(s, c) = DigitAt(puzzle, c)
          /\ ~Solution(s).panic =>
                \A c \in GivenCells(puzzle) : DigitAt(Solution(s).grid, c) = DigitAt(puzzle, c)
          /\ \A i \in DOMAIN returned : \A c \in GivenCells(puzzle) :
                DigitAt(returned[i], c) = DigitAt(puzzle, c))

\* two solutions of a puzzle that has given cells and blank cells were read
C22_Witness ==
  /\ pc = "idle" /\ Len(returned) >= 2 /\ read
  /\ GivenCells(puzzle) # {} /\ Blanks(puzzle) # {}
  /\ returned[1] # returned[2]

\* C23 Driver limit reporting: in all-solutions mode with a limit L # 0 the
\* driver prints and counts at most L solutions of the puzzle; in counts-only
\* mode the count line of a puzzle with more than L solutions is "L (limit)"
\* and that of a puzzle with at most L solutions is its exact count without
\* the marker.
C23_LimitReporting ==
  (pc = "end" /\ drv.all /\ drv.limit # 0) =>
     /\ Cardinality(Printed("solution")) <= drv.limit
     /\ drv.solutionCount <= drv.limit
     /\ (drv.countsOnly /\ Verbose(drv)) =>
           /\ Cardinality(Printed("count")) = 1
           /\ \A i \in Printed("count") :
                 IF Cardinality(RefSolutions(puzzle)) > drv.limit
                 THEN drv.printed[i] = Line("count", ZeroGrid, drv.limit, TRUE)
                 ELSE drv.printed[i] =
                        Line("count", ZeroGrid, Cardinality(RefSolutions(puzzle)), FALSE)

\* C24 Toggle is self-inverse and local: for every cell (x, y) and mask of
\* one digit, a flipBit changes row[y], column[x] and the box numbered
\* (y/3)*3 + x/3 by that bit and no other mask, and a second flipBit gives
\* back the tracker as it was before the first.
C24_ToggleSelfInverseLocal ==
  pc = "flip" =>
    /\ s.globalCandidates = Last(call.seen)
    /\ \A n \in 1 .. Len(call.seen) - 1 :
          LET before == call.seen[n]
              after  == call.seen[n + 1]
              b      == (call.y \div 3) * 3 + (call.x \div 3)
          IN /\ DOMAIN after = DOMAIN before
             /\ \A i \in 0 .. sudokuSize - 1 :
                   /\ after.row[i] = IF i = call.y THEN BitXor(before.row[i], call.bit)
                                                  ELSE before.row[i]
                   /\ after.column[i] = IF i = call.x THEN BitXor(before.column[i], call.bit)
                                                     ELSE before.column[i]
                   /\ after.box[i] = IF i = b THEN BitXor(before.box[i], call.bit)
                                             ELSE before.box[i]
             /\ after.row[call.y] # before.row[call.y]
             /\ after.column[call.x] # before.column[call.x]
             /\ after.box[b] # before.box[b]
    /\ \A n \in 1 .. Len(call.seen) - 2 : call.seen[n + 2] = call.seen[n]

\* two flips of a digit that was a candidate, on a cell off the diagonal
C24_Witness ==
  /\ pc = "flip"
  /\ Len(call.seen) >= 3
  /\ call.seen[3] = call.seen[1]
  /\ call.seen[2] # call.seen[1]
  /\ boxLookup[call.y][call.x] # boxLookup[call.x][call.y]
  /\ BitAnd(call.seen[1].row[call.y], call.bit) # 0

====
